---- MODULE Spec2Model ----
(***************************************************************************)
(* Sliding-window rate limiter of scanner-app (rate-limiter.js, the part   *)
(* of src/app.js from line 515 on) over a Redis sorted-set store.          *)
(*                                                                         *)
(* Time is Date.now() in milliseconds; a score is Math.floor(now / 1000).  *)
(* A sorted-set member is the decimal string of the millisecond timestamp; *)
(* the model keeps the integer itself, the decimal rendering of integers   *)
(* being one-to-one.  A key `ratelimit:<window>:<identifier>` is the pair  *)
(* <<window, identifier>>.  The handlers of src/server.js that call the    *)
(* limiter, POST /api/scan and GET /api/analysis/:id, are the Http actions.*)
(***************************************************************************)
EXTENDS Integers, Sequences, FiniteSets, Bags, TLC

VARIABLES clock,     \* Date.now(), milliseconds
          isOpen,    \* redisClient.isOpen
          store,     \* the Redis keyspace: key -> [members, expireAt]
          hist,      \* whether the store came with the past of HistStore (never changes)
          calls,     \* bag of [id, ms]: the recordRequest calls made since, whose four writes all succeeded
          last,      \* the operation that ran last and what it returned
          nTicks,    \* number of clock advances so far
          nRecords,  \* number of recordRequest calls that reached the store
          req,       \* the HTTP requests in the handlers of server.js, by slot
          served,    \* bag of [client, at]: the requests answered with success and recorded with the client connected
          nReqs,     \* number of HTTP requests received so far
          callers,   \* callers of the limiter between their checkRateLimit and their recordRequest
          isOpenB,   \* redisClient.isOpen of a second server instance on the same store
          ident,     \* a request handed to getClientIdentifier, and what came back
          blind,     \* whether a caller was allowed by a checkRateLimit call that found the client not connected
          poll       \* a pollForResults call of the page: its arguments, its position, how it ended

vars == <<clock, isOpen, store, hist, calls, last, nTicks, nRecords, req, served, nReqs,
          callers, isOpenB, ident, blind, poll>>
httpVars == <<req, served, nReqs>>

(* ------------------------------ bounds --------------------------------- *)
MaxTicks == 1            \* clock advances between calls
MaxRecords == 5          \* recordRequest calls that reach the store
MaxRecordsTwo == 2       \* the same under SpecTwo, where two identifiers call in
MaxRequests == 5         \* HTTP requests received under SpecHttp
MaxFaultRecords == 1     \* recordRequest calls that reach the store under SpecFaults
MaxElapses == 3          \* clock advances under SpecLong
MaxLongRecords == 4      \* recordRequest calls that reach the store under SpecLong
MaxAttempts == 3          \* largest maxAttempts passed to pollForResults, the default apart
MaxSeqRecords == 6        \* recordRequest calls that reach the store under SpecSeq
MaxRaceRecords == 7      \* recordRequest calls that reach the store under SpecRace
MaxLen == 3              \* length of an x-forwarded-for header under SpecIdent
T0 == 1000000000         \* Date.now() when the model starts, ms
HistCount == 497         \* earlier requests of identifier "a" under SpecHist
HistGapS == 60           \* seconds between two of them
HistAgeS == 3600         \* seconds from the last of them to T0

Undefined == "undefined"             \* what `${identifier}` renders when no argument was passed
Ids == {"a", "b", Undefined}         \* the identifiers the store has keys for
Reqs == {1}                          \* slots for HTTP requests in flight
HttpClients == {"a", Undefined}      \* what getClientIdentifier makes of the requests under SpecHttp
Routes == {"scan", "analysis"}       \* POST /api/scan, GET /api/analysis/:id
FetchDurations == {1}                \* what a call to VirusTotal takes, ms
FetchOutcomes == {"ok", "429", "error", "throw"}   \* what the call to VirusTotal does
Callers == {1, 2}                    \* requests that may be between check and record at once
Clients == {"a"}                     \* the identifiers that call in under Spec
TwoClients == {"a", "b"}             \* the identifiers that call in under SpecTwo
TickSteps == {59000, 60000, 61000}   \* clock advances between calls, ms
Durations == {0, 1}                  \* what a recordRequest round trip takes, ms

(* --------------------------- program constants ------------------------- *)
LIMITS_PER_MINUTE == 4
LIMITS_PER_DAY == 500
WINDOWS_MINUTE == 60
WINDOWS_DAY == 86400

Null == -1            \* null / undefined where a non-negative number is expected
NoTTL == -1           \* a key without expiry

WindowNames == {"minute", "day"}
Key_Shared(w, identifier) == <<w, "a">>
Key(w, identifier) == <<w, identifier>>
Keys == {Key(w, i) : w \in WindowNames, i \in Ids}

EmptyKey == [members |-> {}, expireAt |-> NoTTL]

(* --------------------------- Redis commands ---------------------------- *)
\* ZADD key score member: a member already present keeps a single entry.
ZAdd(st, key, score, member) ==
    [st EXCEPT ![key].members =
        {m \in @ : m.member # member} \cup {[member |-> member, score |-> score]}]

\* ZCOUNT key min +inf
ZCount(st, key, min) == Cardinality({m \in st[key].members : m.score >= min})

\* sorted-set order: by score, then by member
Before(m, o) == m.score < o.score \/ (m.score = o.score /\ m.member <= o.member)
ZFirst(S) == CHOOSE m \in S : \A o \in S : Before(m, o)

\* ZRANGEBYSCORE key min +inf LIMIT 0 count, for the count = 1 the caller passes
ZRangeByScore(st, key, min, count) ==
    LET S == {m \in st[key].members : m.score >= min}
    IN  IF S = {} \/ count < 1 THEN <<>> ELSE <<ZFirst(S).member>>

\* ZRANGE key start stop WITHSCORES by rank, for the 0..0 the caller passes
ZRangeWithScores(st, key, start, stop) ==
    LET S == st[key].members
    IN  IF S = {} \/ start # 0 \/ stop # 0 THEN <<>>
        ELSE <<[value |-> ZFirst(S).member, score |-> ZFirst(S).score]>>

\* EXPIRE key seconds: no effect on a key that does not exist
RedisExpire(st, key, seconds, now) ==
    IF st[key].members = {} THEN st
    ELSE [st EXCEPT ![key].expireAt = now + seconds * 1000]

\* keys whose time to live has run out are gone
Purge(st, now) ==
    [k \in Keys |->
        IF st[k].expireAt # NoTTL /\ st[k].expireAt <= now THEN EmptyKey ELSE st[k]]

(* ------------------------------ kv adapter ----------------------------- *)
Ret(v) == [threw |-> FALSE, val |-> v]
Threw == [threw |-> TRUE, val |-> Null]

\* kv.zcount counting the whole set
kv_zcount_Card(st, open, fault, key, min) ==
    IF ~open THEN Ret(0)
    ELSE IF fault THEN Threw
    ELSE Ret(Cardinality(st[key].members))

kv_zcount(st, open, fault, key, min) ==
    IF ~open THEN Ret(0)
    ELSE IF fault THEN Threw
    ELSE Ret(ZCount(st, key, min))

kv_zrange_byScore(st, open, fault, key, min, count) ==
    IF ~open THEN Ret(<<>>)
    ELSE IF fault THEN Threw
    ELSE Ret(ZRangeByScore(st, key, min, count))

kv_zrange_withScores(st, open, fault, key, start, stop) ==
    IF ~open THEN Ret(<<>>)
    ELSE IF fault THEN Threw
    ELSE Ret(ZRangeWithScores(st, key, start, stop))

\* kv.zadd scoring a member with its millisecond timestamp
kv_zadd_MemberScore(st, open, fault, key, score, member) ==
    IF ~open \/ fault THEN st ELSE ZAdd(st, key, member, member)

\* kv.zadd and kv.expire: the store after the call (unchanged when the client
\* is closed or the command fails)
kv_zadd(st, open, fault, key, score, member) ==
    IF ~open \/ fault THEN st ELSE ZAdd(st, key, score, member)

\* kv.expire handing its seconds to a command that takes milliseconds
kv_expire_Millis(st, open, fault, key, seconds, now) ==
    IF ~open \/ fault \/ st[key].members = {} THEN st
    ELSE [st EXCEPT ![key].expireAt = now + seconds]

kv_expire(st, open, fault, key, seconds, now) ==
    IF ~open \/ fault THEN st ELSE RedisExpire(st, key, seconds, now)

(* ---------------------------- policy engine --------------------------- *)
CheckOps == {"zcountMinute", "zrangeByScore", "zrangeRank", "zcountDay"}
RecordOps == {"zaddMinute", "zaddDay", "expireMinute", "expireDay"}

\* countRequestsInWindow without a window: every member of the key counts
countRequestsInWindow_NoWindow(st, open, fault, key, nowSeconds, windowSeconds) ==
    LET count == kv_zcount(st, open, fault, key, 0)
    IN  IF count.threw THEN Ret(0)
        ELSE Ret(IF count.val # 0 THEN count.val ELSE 0)

\* countRequestsInWindow leaving the window's first second out
countRequestsInWindow_Exclusive(st, open, fault, key, nowSeconds, windowSeconds) ==
    LET windowStart == nowSeconds - windowSeconds + 1
        count == kv_zcount(st, open, fault, key, windowStart)
    IN  IF count.threw THEN Ret(0)
        ELSE Ret(IF count.val # 0 THEN count.val ELSE 0)

\* countRequestsInWindow: its own try/catch turns a failed count into 0
countRequestsInWindow(st, open, fault, key, nowSeconds, windowSeconds) ==
    LET windowStart == nowSeconds - windowSeconds
        count == kv_zcount(st, open, fault, key, windowStart)
    IN  IF count.threw THEN Ret(0)
        ELSE Ret(IF count.val # 0 THEN count.val ELSE 0)

\* getOldestRequestTime: looks for a member in the window, then reads the
\* member of rank 0 of the whole set; its own try/catch turns a failure into null
getOldestRequestTime(st, open, faults, key, nowSeconds, windowSeconds) ==
    LET windowStart == nowSeconds - windowSeconds
        oldest == kv_zrange_byScore(st, open, "zrangeByScore" \in faults, key, windowStart, 1)
        members == kv_zrange_withScores(st, open, "zrangeRank" \in faults, key, 0, 0)
    IN  IF oldest.threw THEN Ret(Null)
        ELSE IF Len(oldest.val) > 0
             THEN IF members.threw THEN Ret(Null)
                  ELSE Ret(IF Len(members.val) > 0 THEN members.val[1].score ELSE Null)
             ELSE Ret(Null)

\* a JavaScript number-or-null used as a condition
Truthy(x) == x # Null /\ x # 0

\* the message of a decision: the text around the number it quotes, if any
DailyMessage == <<"Daily limit of 500 requests reached. Please try again tomorrow.">>
WaitMessage(waitTime) ==
    <<"Rate limit exceeded. Please wait ", waitTime, " seconds before trying again.">>

\* a decision whose message always quotes the length of the window
Decision_WindowMessage(allowed, reason, hasWait, waitTime, warning) ==
    [allowed |-> allowed, reason |-> reason, hasWait |-> hasWait,
     waitTime |-> waitTime, warning |-> warning,
     message |-> IF reason = "rate_limit" THEN WaitMessage(WINDOWS_MINUTE)
                 ELSE IF reason = "daily_limit" THEN DailyMessage
                 ELSE <<>>]

Decision(allowed, reason, hasWait, waitTime, warning) ==
    [allowed |-> allowed, reason |-> reason, hasWait |-> hasWait,
     waitTime |-> waitTime, warning |-> warning,
     message |-> IF reason = "rate_limit" THEN WaitMessage(waitTime)
                 ELSE IF reason = "daily_limit" THEN DailyMessage
                 ELSE <<>>]

FailOpen == Decision(TRUE, "none", FALSE, 0, TRUE)

\* the two limit tests of checkRateLimit
overMinute_Above(minuteCount) == minuteCount > LIMITS_PER_MINUTE
overMinute(minuteCount) == minuteCount >= LIMITS_PER_MINUTE
overDay_Strict(dayCount) == dayCount > LIMITS_PER_DAY
overDay(dayCount) == dayCount >= LIMITS_PER_DAY

\* checkRateLimit testing the day limit before the minute limit
checkRateLimit_DayFirst(st, open, faults, identifier, now) ==
    LET nowSeconds == now \div 1000
        minuteKey == Key("minute", identifier)
        dayKey == Key("day", identifier)
        minuteCount == countRequestsInWindow(st, open, "zcountMinute" \in faults,
                                             minuteKey, nowSeconds, WINDOWS_MINUTE)
        oldestRequestTime == getOldestRequestTime(st, open, faults, minuteKey,
                                                  nowSeconds, WINDOWS_MINUTE)
        waitTime == IF Truthy(oldestRequestTime.val)
                    THEN oldestRequestTime.val + WINDOWS_MINUTE - nowSeconds
                    ELSE WINDOWS_MINUTE
        dayCount == countRequestsInWindow(st, open, "zcountDay" \in faults,
                                          dayKey, nowSeconds, WINDOWS_DAY)
    IN  IF overDay(dayCount.val)
        THEN Decision(FALSE, "daily_limit", FALSE, 0, FALSE)
        ELSE IF overMinute(minuteCount.val)
        THEN Decision(FALSE, "rate_limit", TRUE, waitTime, FALSE)
        ELSE Decision(TRUE, "none", FALSE, 0, FALSE)

\* checkRateLimit(identifier) at Date.now() = now
checkRateLimit(st, open, faults, identifier, now) ==
    LET nowSeconds == now \div 1000
        minuteKey == Key("minute", identifier)
        dayKey == Key("day", identifier)
        minuteCount == countRequestsInWindow(st, open, "zcountMinute" \in faults,
                                             minuteKey, nowSeconds, WINDOWS_MINUTE)
        oldestRequestTime == getOldestRequestTime(st, open, faults, minuteKey,
                                                  nowSeconds, WINDOWS_MINUTE)
        waitTime == IF Truthy(oldestRequestTime.val)
                    THEN oldestRequestTime.val + WINDOWS_MINUTE - nowSeconds
                    ELSE WINDOWS_MINUTE
        dayCount == countRequestsInWindow(st, open, "zcountDay" \in faults,
                                          dayKey, nowSeconds, WINDOWS_DAY)
    IN  IF minuteCount.threw THEN FailOpen
        ELSE IF overMinute(minuteCount.val)
        THEN IF oldestRequestTime.threw THEN FailOpen
             ELSE Decision(FALSE, "rate_limit", TRUE, waitTime, FALSE)
        ELSE IF dayCount.threw THEN FailOpen
        ELSE IF overDay(dayCount.val)
        THEN Decision(FALSE, "daily_limit", FALSE, 0, FALSE)
        ELSE Decision(TRUE, "none", FALSE, 0, FALSE)

\* the store commands a checkRateLimit call issues, in order
CheckIssued(st, open, faults, identifier, now) ==
    LET nowSeconds == now \div 1000
        minuteKey == Key("minute", identifier)
        minuteCount == countRequestsInWindow(st, open, "zcountMinute" \in faults,
                                             minuteKey, nowSeconds, WINDOWS_MINUTE)
        oldest == kv_zrange_byScore(st, open, "zrangeByScore" \in faults, minuteKey,
                                    nowSeconds - WINDOWS_MINUTE, 1)
    IN  IF overMinute(minuteCount.val)
        THEN {"zcountMinute", "zrangeByScore"}
             \cup (IF ~oldest.threw /\ Len(oldest.val) > 0 THEN {"zrangeRank"} ELSE {})
        ELSE {"zcountMinute", "zcountDay"}

\* recordRequest(identifier) at Date.now() = now: the four commands of the
\* Promise.all are all issued, in this order, whichever of them fail
recordRequest_MinuteOnly(st, open, faults, identifier, now) ==
    LET nowSeconds == now \div 1000
        minuteKey == Key("minute", identifier)
        s1 == kv_zadd(st, open, "zaddMinute" \in faults, minuteKey, nowSeconds, now)
        s3 == kv_expire(s1, open, "expireMinute" \in faults, minuteKey, WINDOWS_MINUTE * 2, now)
    IN  s3

\* a recordRequest whose keys live as long as their windows
recordRequest_TtlWindow(st, open, faults, identifier, now) ==
    LET nowSeconds == now \div 1000
        minuteKey == Key("minute", identifier)
        dayKey == Key("day", identifier)
        s1 == kv_zadd(st, open, "zaddMinute" \in faults, minuteKey, nowSeconds, now)
        s2 == kv_zadd(s1, open, "zaddDay" \in faults, dayKey, nowSeconds, now)
        s3 == kv_expire(s2, open, "expireMinute" \in faults, minuteKey, WINDOWS_MINUTE, now)
        s4 == kv_expire(s3, open, "expireDay" \in faults, dayKey, WINDOWS_DAY, now)
    IN  s4

\* a recordRequest whose member is the timestamp plus the number of members
\* the minute set already holds
recordRequest_PerCallMember(st, open, faults, identifier, now) ==
    LET nowSeconds == now \div 1000
        minuteKey == Key("minute", identifier)
        dayKey == Key("day", identifier)
        member == now + Cardinality(st[minuteKey].members)
        s1 == kv_zadd(st, open, "zaddMinute" \in faults, minuteKey, nowSeconds, member)
        s2 == kv_zadd(s1, open, "zaddDay" \in faults, dayKey, nowSeconds, member)
        s3 == kv_expire(s2, open, "expireMinute" \in faults, minuteKey, WINDOWS_MINUTE * 2, now)
        s4 == kv_expire(s3, open, "expireDay" \in faults, dayKey, WINDOWS_DAY * 2, now)
    IN  s4

recordRequest(st, open, faults, identifier, now) ==
    LET nowSeconds == now \div 1000
        minuteKey == Key("minute", identifier)
        dayKey == Key("day", identifier)
        s1 == kv_zadd(st, open, "zaddMinute" \in faults, minuteKey, nowSeconds, now)
        s2 == kv_zadd(s1, open, "zaddDay" \in faults, dayKey, nowSeconds, now)
        s3 == kv_expire(s2, open, "expireMinute" \in faults, minuteKey, WINDOWS_MINUTE * 2, now)
        s4 == kv_expire(s3, open, "expireDay" \in faults, dayKey, WINDOWS_DAY * 2, now)
    IN  s4

\* how a recordRequest call ends for its caller: the Promise.all rejects when
\* a command sent to the server rejects, and the catch block keeps it
recordRequestOutcome_NoCatch(open, faults) ==
    IF open /\ faults # {} THEN "rejected" ELSE "resolved"

recordRequestOutcome(open, faults) ==
    IF open /\ faults # {} THEN "caught" ELSE "resolved"

\* the store commands a getRateLimitStatus call issues
StatusOps == {"zcountMinute", "zcountDay"}

Max(a, b) == IF a >= b THEN a ELSE b

StatusReport(minuteCount, dayCount, remMinute, remDay, error) ==
    [requestsLastMinute |-> minuteCount, requestsToday |-> dayCount,
     limits |-> [perMinute |-> LIMITS_PER_MINUTE, perDay |-> LIMITS_PER_DAY],
     remaining |-> [perMinute |-> remMinute, perDay |-> remDay],
     error |-> error]

\* getRateLimitStatus(identifier) at Date.now() = now
getRateLimitStatus_NoClamp(st, open, faults, identifier, now) ==
    LET nowSeconds == now \div 1000
        minuteCount == countRequestsInWindow(st, open, "zcountMinute" \in faults,
                           Key("minute", identifier), nowSeconds, WINDOWS_MINUTE)
        dayCount == countRequestsInWindow(st, open, "zcountDay" \in faults,
                           Key("day", identifier), nowSeconds, WINDOWS_DAY)
    IN  StatusReport(minuteCount.val, dayCount.val,
                     LIMITS_PER_MINUTE - minuteCount.val,
                     LIMITS_PER_DAY - dayCount.val, FALSE)

\* a status that keeps one request of each limit in reserve
getRateLimitStatus_OneLess(st, open, faults, identifier, now) ==
    LET nowSeconds == now \div 1000
        minuteCount == countRequestsInWindow(st, open, "zcountMinute" \in faults,
                           Key("minute", identifier), nowSeconds, WINDOWS_MINUTE)
        dayCount == countRequestsInWindow(st, open, "zcountDay" \in faults,
                           Key("day", identifier), nowSeconds, WINDOWS_DAY)
    IN  IF minuteCount.threw \/ dayCount.threw
        THEN StatusReport(0, 0, LIMITS_PER_MINUTE, LIMITS_PER_DAY, TRUE)
        ELSE StatusReport(minuteCount.val, dayCount.val,
                          Max(0, LIMITS_PER_MINUTE - 1 - minuteCount.val),
                          Max(0, LIMITS_PER_DAY - 1 - dayCount.val), FALSE)

getRateLimitStatus(st, open, faults, identifier, now) ==
    LET nowSeconds == now \div 1000
        minuteCount == countRequestsInWindow(st, open, "zcountMinute" \in faults,
                           Key("minute", identifier), nowSeconds, WINDOWS_MINUTE)
        dayCount == countRequestsInWindow(st, open, "zcountDay" \in faults,
                           Key("day", identifier), nowSeconds, WINDOWS_DAY)
    IN  IF minuteCount.threw \/ dayCount.threw
        THEN StatusReport(0, 0, LIMITS_PER_MINUTE, LIMITS_PER_DAY, TRUE)
        ELSE StatusReport(minuteCount.val, dayCount.val,
                          Max(0, LIMITS_PER_MINUTE - minuteCount.val),
                          Max(0, LIMITS_PER_DAY - dayCount.val), FALSE)

(* ------------------------------- history ------------------------------- *)
\* the identifier "a" may come with a past: HistCount requests, HistGapS
\* seconds apart, the last one HistAgeS seconds before the model starts; its
\* minute key has expired since (HistAgeS > 120), its day key has not
HistMs(k) == T0 - (HistAgeS + k * HistGapS) * 1000
HistMembers == {[member |-> HistMs(k), score |-> HistMs(k) \div 1000] : k \in 0 .. HistCount - 1}
HistStore ==
    [k \in Keys |->
        IF k = Key("day", "a")
        THEN [members |-> HistMembers, expireAt |-> HistMs(0) + WINDOWS_DAY * 2 * 1000]
        ELSE EmptyKey]
FreshStore == [k \in Keys |-> EmptyKey]

HistSet == {[id |-> "a", ms |-> HistMs(k)] : k \in 0 .. HistCount - 1}

\* what `last` holds: the call, the commands of it that failed, what it
\* returned (res) and what its helpers returned on the way
Result(op, identifier, res, failed, kvMinute, minuteCount, oldest) ==
    [op |-> op, id |-> identifier, res |-> res, failed |-> failed,
     kvMinute |-> kvMinute, minuteCount |-> minuteCount, oldest |-> oldest,
     status |-> StatusReport(0, 0, 0, 0, FALSE), outcome |-> "resolved"]
Plain == Decision(TRUE, "none", FALSE, 0, FALSE)
NoResult == Result("none", "none", Plain, {}, Ret(0), 0, Null)

\* a slot of the HTTP server: where its handler stands (pc), whom it
\* serves (client), what it did (checked, fetched, recorded, pending: the
\* Date.now() of a recordRequest call whose commands are on their way) and
\* what it answered (status, error, reason)
HttpReq(pc, client, checked, fetched, recorded, pending, status, error, reason) ==
    [pc |-> pc, client |-> client, checked |-> checked,
     fetched |-> fetched, recorded |-> recorded, pending |-> pending,
     status |-> status, error |-> error, reason |-> reason, prior |-> 0,
     message |-> <<>>, hasWait |-> FALSE, waitTime |-> 0]
IdleReq == HttpReq("idle", "none", "none", FALSE, "none", Null, 0, "none", "none")

\* a header or property of a request: absent (undefined), or a string, which
\* is a sequence of characters
Str(val) == [present |-> TRUE, val |-> val]
Absent == [present |-> FALSE, val |-> <<>>]
Chars == {"7", ",", " "}
Strings(n) == UNION {[1 .. k -> Chars] : k \in 0 .. n}
Unknown == <<"u", "n", "k", "n", "o", "w", "n">>

\* a string in a condition or left of ||: undefined and '' are falsy
TruthyStr(h) == h.present /\ h.val # <<>>

\* s.split(',')[0]
SplitFirst(s) ==
    IF \E i \in 1 .. Len(s) : s[i] = ","
    THEN SubSeq(s, 1, (CHOOSE i \in 1 .. Len(s) :
                          s[i] = "," /\ \A j \in 1 .. i - 1 : s[j] # ",") - 1)
    ELSE s

\* s.trim()
RECURSIVE TrimStart(_)
TrimStart(s) == IF s # <<>> /\ Head(s) = " " THEN TrimStart(Tail(s)) ELSE s
RECURSIVE TrimEnd(_)
TrimEnd(s) == IF s # <<>> /\ s[Len(s)] = " " THEN TrimEnd(SubSeq(s, 1, Len(s) - 1)) ELSE s
Trim(s) == TrimEnd(TrimStart(s))

\* what getClientIdentifier did: returned val, or threw
Returned(h) == [threw |-> FALSE, val |-> h]
TypeError == [threw |-> TRUE, val |-> Absent]

\* getClientIdentifier(req), req.headers['x-forwarded-for'] = forwarded,
\* req.headers['x-real-ip'] = realIp, req.ip = ip, req.connection an object or
\* not, req.connection.remoteAddress = remoteAddress
getClientIdentifier(forwarded, realIp, ip, connection, remoteAddress) ==
    IF TruthyStr(forwarded) THEN Returned(Str(Trim(SplitFirst(forwarded.val))))
    ELSE IF TruthyStr(realIp) THEN Returned(realIp)
    ELSE IF TruthyStr(ip) THEN Returned(ip)
    ELSE IF ~connection THEN TypeError
    ELSE IF TruthyStr(remoteAddress) THEN Returned(remoteAddress)
    ELSE Returned(Str(Unknown))

IdentInputs ==
    [forwarded : {Absent} \cup {Str(v) : v \in Strings(MaxLen)},
     realIp : {Absent, Str(<<>>), Str(<<"8">>)},
     ip : {Absent, Str(<<"9">>)},
     connection : BOOLEAN,
     remoteAddress : {Absent, Str(<<"6">>)},
     done : {FALSE}, threw : {FALSE}, result : {Absent}]

NoIdent == [forwarded |-> Absent, realIp |-> Absent, ip |-> Absent,
            connection |-> FALSE, remoteAddress |-> Absent,
            done |-> FALSE, threw |-> FALSE, result |-> Absent]

(* ---------------------- pollForResults: its state ---------------------- *)
\* pollForResults(analysisId, maxAttempts = 30, interval = 2000)
DefaultMaxAttempts == 30

\* what one fetch of /api/analysis/:id brings: status 0 stands for a fetch
\* that rejects; the body parses as JSON or not, and as JSON holds
\* data.attributes or not; analysis is data.data.attributes.status
PollResponse(status, body, analysis) == [status |-> status, body |-> body, analysis |-> analysis]
NoResponse == PollResponse(0, "none", "none")
PollResponses ==
    {NoResponse}
    \cup {PollResponse(st, b, "none") : st \in {200, 429, 500}, b \in {"notJson", "noData"}}
    \cup {PollResponse(st, "json", "none") : st \in {429, 500}}
    \cup {PollResponse(200, "json", a) : a \in {"completed", "queued", "in-progress"}}

PollState(pc, maxAttempts, attempt, requests, response, error, result) ==
    [pc |-> pc, maxAttempts |-> maxAttempts, attempt |-> attempt, requests |-> requests,
     response |-> response, error |-> error, result |-> result]
NoPoll == PollState("none", 0, 0, 0, NoResponse, "none", "none")

\* one turn of the loop: fetch, response.json(), the test of response.ok,
\* the test of analysis.status
pollAttempt(p, r) ==
    LET q == [p EXCEPT !.requests = @ + 1, !.response = r]
    IN  IF r.status = 0 THEN [q EXCEPT !.pc = "threw", !.error = "fetch rejected"]
        ELSE IF r.body = "notJson" THEN [q EXCEPT !.pc = "threw", !.error = "SyntaxError"]
        ELSE IF r.status # 200
             THEN IF r.status = 429
                  THEN [q EXCEPT !.pc = "threw", !.error = "rateLimitError"]
                  ELSE [q EXCEPT !.pc = "threw", !.error = "Failed to get analysis results"]
        ELSE IF r.body = "noData" THEN [q EXCEPT !.pc = "threw", !.error = "TypeError"]
        ELSE IF r.analysis = "completed"
             THEN [q EXCEPT !.pc = "returned", !.result = r.analysis]
        ELSE [q EXCEPT !.pc = "delay"]

(* ------------------------------- actions ------------------------------- *)
\* a store nobody has written to, and a client still connecting
Init ==
    /\ clock = T0
    /\ isOpen = FALSE
    /\ hist = FALSE
    /\ store = FreshStore
    /\ calls = EmptyBag
    /\ last = NoResult
    /\ nTicks = 0
    /\ nRecords = 0
    /\ req = [r \in Reqs |-> IdleReq]
    /\ served = EmptyBag
    /\ nReqs = 0
    /\ callers = [p \in Callers |-> "idle"]
    /\ isOpenB = FALSE
    /\ ident = NoIdent
    /\ blind = FALSE
    /\ poll = NoPoll

\* the same, over a store that holds the past of identifier "a"
InitHist ==
    /\ clock = T0
    /\ isOpen = FALSE
    /\ hist = TRUE
    /\ store = HistStore
    /\ calls = EmptyBag
    /\ last = NoResult
    /\ nTicks = 0
    /\ nRecords = 0
    /\ req = [r \in Reqs |-> IdleReq]
    /\ served = EmptyBag
    /\ nReqs = 0
    /\ callers = [p \in Callers |-> "idle"]
    /\ isOpenB = FALSE
    /\ ident = NoIdent
    /\ blind = FALSE
    /\ poll = NoPoll

\* redisClient.connect() completes
Connect ==
    /\ ~isOpen
    /\ isOpen' = TRUE
    /\ last' = NoResult
    /\ UNCHANGED <<clock, store, hist, calls, nTicks, nRecords, req, served, nReqs, callers, isOpenB, ident, blind, poll>>

\* the connection is lost
Disconnect ==
    /\ isOpen
    /\ isOpen' = FALSE
    /\ last' = NoResult
    /\ UNCHANGED <<clock, store, hist, calls, nTicks, nRecords, req, served, nReqs, callers, isOpenB, ident, blind, poll>>

\* time passes; Redis drops the keys whose time to live has run out
Tick(d) ==
    /\ nTicks < MaxTicks
    /\ clock' = clock + d
    /\ store' = Purge(store, clock + d)
    /\ nTicks' = nTicks + 1
    /\ last' = NoResult
    /\ UNCHANGED <<isOpen, hist, calls, nRecords, req, served, nReqs, callers, isOpenB, ident, blind, poll>>

\* time passes, as in Tick, as often as SpecLong allows
Elapse(d) ==
    /\ nTicks < MaxElapses
    /\ clock' = clock + d
    /\ store' = Purge(store, clock + d)
    /\ nTicks' = nTicks + 1
    /\ last' = NoResult
    /\ UNCHANGED <<isOpen, hist, calls, nRecords, req, served, nReqs, callers, isOpenB, ident, blind, poll>>

\* checkRateLimit(identifier) runs against the store as it is at Date.now();
\* faults are the commands of this call that reject.  Nothing but the result is new.
Check_Recording(identifier, faults) ==
    /\ isOpen \/ faults = {}
    /\ faults \subseteq CheckIssued(store, isOpen, faults, identifier, clock)
    /\ last' = Result("check", identifier,
                       checkRateLimit(store, isOpen, faults, identifier, clock),
                       faults, Ret(0), 0, Null)
    /\ store' = IF last'.res.allowed
                THEN recordRequest(store, isOpen, {}, identifier, clock)
                ELSE store
    /\ UNCHANGED <<clock, isOpen, hist, calls, nTicks, nRecords, req, served, nReqs, callers, isOpenB, ident, blind, poll>>

Check(identifier, faults) ==
    /\ isOpen \/ faults = {}
    /\ faults \subseteq CheckIssued(store, isOpen, faults, identifier, clock)
    /\ last' = Result("check", identifier,
                       checkRateLimit(store, isOpen, faults, identifier, clock),
                       faults,
                       kv_zcount(store, isOpen, "zcountMinute" \in faults,
                                 Key("minute", identifier), clock \div 1000 - WINDOWS_MINUTE),
                       countRequestsInWindow(store, isOpen, "zcountMinute" \in faults,
                                 Key("minute", identifier), clock \div 1000, WINDOWS_MINUTE).val,
                       IF "zrangeByScore" \in CheckIssued(store, isOpen, faults, identifier, clock)
                       THEN getOldestRequestTime(store, isOpen, faults, Key("minute", identifier),
                                                 clock \div 1000, WINDOWS_MINUTE).val
                       ELSE Null)
    /\ UNCHANGED <<clock, isOpen, store, hist, calls, nTicks, nRecords, req, served, nReqs, callers, isOpenB, ident, blind, poll>>

\* recordRequest(identifier): reads Date.now(), issues its four commands, and
\* returns dur milliseconds later (0: within the same millisecond).  A closed
\* client answers at once and nothing reaches the store.
Record(identifier, faults, dur) ==
    /\ nRecords < MaxRecords
    /\ isOpen \/ (faults = {} /\ dur = 0)
    /\ store' = Purge(recordRequest(store, isOpen, faults, identifier, clock), clock + dur)
    /\ clock' = clock + dur
    /\ calls' = IF isOpen /\ faults = {}
                THEN calls (+) SetToBag({[id |-> identifier, ms |-> clock]})
                ELSE calls
    /\ nRecords' = IF isOpen THEN nRecords + 1 ELSE nRecords
    /\ last' = [Result("record", identifier, Plain, faults, Ret(0), 0, Null)
                   EXCEPT !.outcome = recordRequestOutcome(isOpen, faults)]
    /\ UNCHANGED <<isOpen, hist, nTicks, req, served, nReqs, callers, isOpenB, ident, blind, poll>>

\* getRateLimitStatus(identifier) runs against the store as it is at
\* Date.now(); faults are the commands of this call that reject
Status_Recording(identifier, faults) ==
    /\ isOpen \/ faults = {}
    /\ last' = [Result("status", identifier, Plain, faults, Ret(0), 0, Null)
                   EXCEPT !.status = getRateLimitStatus(store, isOpen, faults, identifier, clock)]
    /\ store' = recordRequest(store, isOpen, {}, identifier, clock)
    /\ UNCHANGED <<clock, isOpen, hist, calls, nTicks, nRecords, req, served, nReqs, callers, isOpenB, ident, blind, poll>>

Status(identifier, faults) ==
    /\ isOpen \/ faults = {}
    /\ last' = [Result("status", identifier, Plain, faults, Ret(0), 0, Null)
                   EXCEPT !.status = getRateLimitStatus(store, isOpen, faults, identifier, clock)]
    /\ UNCHANGED <<clock, isOpen, store, hist, calls, nTicks, nRecords, req, served, nReqs, callers, isOpenB, ident, blind, poll>>

Next ==
    \/ Connect
    \/ Disconnect
    \/ \E d \in TickSteps : Tick(d)
    \/ \E i \in Clients, f \in SUBSET CheckOps : Check(i, f)
    \/ \E i \in Clients, dur \in Durations : Record(i, {}, dur)

Spec == Init /\ [][Next]_vars
SpecHist == InitHist /\ [][Next]_vars

\* the same, with getRateLimitStatus calls between the others
NextStatus ==
    \/ Next
    \/ \E i \in Clients, f \in SUBSET StatusOps : Status(i, f)

SpecStatus == Init /\ [][NextStatus]_vars

\* two identifiers call in
NextTwo ==
    \/ Connect
    \/ Disconnect
    \/ \E d \in TickSteps : Tick(d)
    \/ \E i \in TwoClients, f \in SUBSET CheckOps : Check(i, f)
    \/ \E i \in TwoClients, dur \in Durations : nRecords < MaxRecordsTwo /\ Record(i, {}, dur)
    \/ \E i \in TwoClients, f \in SUBSET StatusOps : Status(i, f)

SpecTwo == Init /\ [][NextTwo]_vars

\* any of the four commands of a recordRequest call may reject
NextFaults ==
    \/ Connect
    \/ Disconnect
    \/ \E d \in TickSteps : Tick(d)
    \/ \E i \in Clients : Check(i, {})
    \/ \E i \in Clients, f \in SUBSET RecordOps, dur \in Durations :
           nRecords < MaxFaultRecords /\ Record(i, f, dur)
    \/ \E i \in Clients : Status(i, {})

SpecFaults == Init /\ [][NextFaults]_vars

\* minutes pass between the calls of one identifier
NextLong ==
    \/ Connect
    \/ \E d \in TickSteps : Elapse(d)
    \/ \E i \in Clients : Check(i, {})
    \/ \E i \in Clients, dur \in Durations : nRecords < MaxLongRecords /\ Record(i, {}, dur)

SpecLong == Init /\ [][NextLong]_vars

(* ------------------------ client identification ---------------------- *)
\* a request with any headers and properties
InitIdent ==
    /\ clock = T0
    /\ isOpen = FALSE
    /\ hist = FALSE
    /\ store = FreshStore
    /\ calls = EmptyBag
    /\ last = NoResult
    /\ nTicks = 0
    /\ nRecords = 0
    /\ req = [r \in Reqs |-> IdleReq]
    /\ served = EmptyBag
    /\ nReqs = 0
    /\ callers = [p \in Callers |-> "idle"]
    /\ isOpenB = FALSE
    /\ ident \in {i \in IdentInputs : i.connection \/ ~i.remoteAddress.present}
    /\ blind = FALSE
    /\ poll = NoPoll

\* const clientId = getClientIdentifier(req)
Identify ==
    /\ ~ident.done
    /\ LET r == getClientIdentifier(ident.forwarded, ident.realIp, ident.ip,
                                     ident.connection, ident.remoteAddress)
       IN  ident' = [ident EXCEPT !.done = TRUE, !.threw = r.threw, !.result = r.val]
    /\ UNCHANGED <<clock, isOpen, store, hist, calls, last, nTicks, nRecords, req, served,
                   nReqs, callers, isOpenB, blind, poll>>

NextIdent == Identify

SpecIdent == InitIdent /\ [][NextIdent]_vars

(* ------------------------- a second instance ------------------------- *)
\* A second server process runs the same module against the same store, with
\* a redisClient of its own.
ConnectB ==
    /\ ~isOpenB
    /\ isOpenB' = TRUE
    /\ last' = NoResult
    /\ UNCHANGED <<clock, isOpen, store, hist, calls, nTicks, nRecords, req, served, nReqs,
                   callers, ident, blind, poll>>

\* checkRateLimit on an instance that counts in a store of its own
CheckB_OwnStore(identifier) ==
    /\ last' = Result("checkB", identifier,
                       checkRateLimit(FreshStore, isOpenB, {}, identifier, clock),
                       {}, Ret(0),
                       countRequestsInWindow(FreshStore, isOpenB, FALSE,
                                 Key("minute", identifier), clock \div 1000, WINDOWS_MINUTE).val,
                       Null)
    /\ UNCHANGED <<clock, isOpen, store, hist, calls, nTicks, nRecords, req, served, nReqs,
                   callers, isOpenB, ident, blind, poll>>

\* checkRateLimit(identifier) on the second instance
CheckB(identifier) ==
    /\ last' = Result("checkB", identifier,
                       checkRateLimit(store, isOpenB, {}, identifier, clock),
                       {}, Ret(0),
                       countRequestsInWindow(store, isOpenB, FALSE,
                                 Key("minute", identifier), clock \div 1000, WINDOWS_MINUTE).val,
                       Null)
    /\ UNCHANGED <<clock, isOpen, store, hist, calls, nTicks, nRecords, req, served, nReqs,
                   callers, isOpenB, ident, blind, poll>>

NextShared ==
    \/ Connect
    \/ Disconnect
    \/ ConnectB
    \/ \E d \in TickSteps : Tick(d)
    \/ \E i \in Clients, dur \in Durations : Record(i, {}, dur)
    \/ \E i \in Clients : Check(i, {})
    \/ \E i \in Clients : CheckB(i)

SpecShared == Init /\ [][NextShared]_vars

(* ----------------------- check, then record --------------------------- *)
\* A caller follows the flow of the documentation: checkRateLimit(identifier),
\* the protected action if allowed, then recordRequest(identifier); other
\* callers run between its two calls.
\* a caller that goes on to recordRequest whatever checkRateLimit returned
CallerCheck_Unchecked(p, identifier) ==
    /\ callers[p] = "idle"
    /\ callers' = [callers EXCEPT ![p] = identifier]
    /\ blind' = (blind \/ ~isOpen)
    /\ last' = NoResult
    /\ UNCHANGED <<clock, isOpen, store, hist, calls, nTicks, nRecords, req, served, nReqs,
                   isOpenB, ident, poll>>

CallerCheck(p, identifier) ==
    /\ callers[p] = "idle"
    /\ callers' = [callers EXCEPT ![p] =
                      IF checkRateLimit(store, isOpen, {}, identifier, clock).allowed
                      THEN identifier ELSE "idle"]
    /\ blind' = (blind \/ ~isOpen)
    /\ last' = NoResult
    /\ UNCHANGED <<clock, isOpen, store, hist, calls, nTicks, nRecords, req, served, nReqs,
                   isOpenB, ident, poll>>

CallerRecord(p, dur) ==
    /\ callers[p] # "idle"
    /\ nRecords < MaxRaceRecords
    /\ isOpen \/ dur = 0
    /\ store' = Purge(recordRequest(store, isOpen, {}, callers[p], clock), clock + dur)
    /\ clock' = clock + dur
    /\ calls' = IF isOpen
                THEN calls (+) SetToBag({[id |-> callers[p], ms |-> clock]})
                ELSE calls
    /\ nRecords' = IF isOpen THEN nRecords + 1 ELSE nRecords
    /\ callers' = [callers EXCEPT ![p] = "idle"]
    /\ last' = NoResult
    /\ UNCHANGED <<isOpen, hist, nTicks, req, served, nReqs, isOpenB, ident, blind, poll>>

NextRace ==
    \/ Connect
    \/ \E d \in TickSteps : Tick(d)
    \/ \E p \in Callers, i \in Clients : CallerCheck(p, i)
    \/ \E p \in Callers, dur \in Durations : CallerRecord(p, dur)

SpecRace == Init /\ [][NextRace]_vars

\* One caller at a time: each recordRequest call completes before the next
\* checkRateLimit call begins.  The store is new or holds the past of "a",
\* and the connection to it comes and goes.
InitSeq == Init \/ InitHist

NextSeq ==
    \/ Connect
    \/ Disconnect
    \/ \E d \in TickSteps : Tick(d)
    \/ \E i \in Clients : CallerCheck(1, i)
    \/ \E dur \in Durations : nRecords < MaxSeqRecords /\ CallerRecord(1, dur)

SpecSeq == InitSeq /\ [][NextSeq]_vars

(* ------------------------- the page: pollForResults -------------------- *)
\* the page calls pollForResults with maxAttempts attempts
InitPoll ==
    /\ clock = T0
    /\ isOpen = FALSE
    /\ hist = FALSE
    /\ store = FreshStore
    /\ calls = EmptyBag
    /\ last = NoResult
    /\ nTicks = 0
    /\ nRecords = 0
    /\ req = [r \in Reqs |-> IdleReq]
    /\ served = EmptyBag
    /\ nReqs = 0
    /\ callers = [p \in Callers |-> "idle"]
    /\ isOpenB = FALSE
    /\ ident = NoIdent
    /\ blind = FALSE
    /\ poll \in {PollState("loop", m, 0, 0, NoResponse, "none", "none") :
                    m \in (0 .. MaxAttempts) \cup {DefaultMaxAttempts}}

\* attempt < maxAttempts: the request is sent and answered
PollAttempt(r) ==
    /\ poll.pc = "loop"
    /\ poll.attempt < poll.maxAttempts
    /\ poll' = pollAttempt(poll, r)
    /\ UNCHANGED <<clock, isOpen, store, hist, calls, last, nTicks, nRecords, req, served,
                   nReqs, callers, isOpenB, ident, blind>>

\* a delay that leaves the attempt counter as it is
PollDelay_NoCount ==
    /\ poll.pc = "delay"
    /\ poll' = [poll EXCEPT !.pc = "loop"]
    /\ UNCHANGED <<clock, isOpen, store, hist, calls, last, nTicks, nRecords, req, served,
                   nReqs, callers, isOpenB, ident, blind>>

\* await this.delay(interval); attempt++
PollDelay ==
    /\ poll.pc = "delay"
    /\ poll' = [poll EXCEPT !.pc = "loop", !.attempt = @ + 1]
    /\ UNCHANGED <<clock, isOpen, store, hist, calls, last, nTicks, nRecords, req, served,
                   nReqs, callers, isOpenB, ident, blind>>

\* the loop is over: throw new Error('Analysis timeout - please try again later')
PollTimeout ==
    /\ poll.pc = "loop"
    /\ poll.attempt >= poll.maxAttempts
    /\ poll' = [poll EXCEPT !.pc = "threw", !.error = "Analysis timeout"]
    /\ UNCHANGED <<clock, isOpen, store, hist, calls, last, nTicks, nRecords, req, served,
                   nReqs, callers, isOpenB, ident, blind>>

NextPoll ==
    \/ \E r \in PollResponses : PollAttempt(r)
    \/ PollDelay
    \/ PollTimeout

SpecPoll == InitPoll /\ [][NextPoll]_vars

(* --------------------------- the HTTP handlers ------------------------- *)
\* One request at a time goes through POST /api/scan or GET /api/analysis/:id;
\* under SpecHttp the connection to the store, once made, holds.
\* the four commands of a recordRequest call that read Date.now() = now reach
\* the server when its clock shows at
recordRequestLands(st, identifier, now, at) ==
    LET nowSeconds == now \div 1000
        minuteKey == Key("minute", identifier)
        dayKey == Key("day", identifier)
        s1 == kv_zadd(st, TRUE, FALSE, minuteKey, nowSeconds, now)
        s2 == kv_zadd(s1, TRUE, FALSE, dayKey, nowSeconds, now)
        s3 == kv_expire(s2, TRUE, FALSE, minuteKey, WINDOWS_MINUTE * 2, at)
        s4 == kv_expire(s3, TRUE, FALSE, dayKey, WINDOWS_DAY * 2, at)
    IN  s4

\* the requests of client answered with success whose recordRequest call found
\* the client connected and read a Date.now() less than 60 seconds before now,
\* one per millisecond
PriorServed(client) ==
    Cardinality({e \in BagToSet(served) :
                    e.client = client /\ e.at \div 1000 > clock \div 1000 - WINDOWS_MINUTE})

\* POST /api/scan or GET /api/analysis/:id arrives in slot r; a scan without
\* url is answered 400 before anything else happens
HttpReceive(r, route, client, valid) ==
    /\ nReqs < MaxRequests
    /\ req[r].pc \in {"idle", "done"}
    /\ req[r].pending = Null
    /\ valid \/ route = "scan"
    /\ req' = [req EXCEPT ![r] =
                  IF valid
                  THEN HttpReq("check", client, "none", FALSE, "none", Null, 0, "none", "none")
                  ELSE HttpReq("done", client, "none", FALSE, "none", Null,
                               400, "URL is required", "none")]
    /\ nReqs' = nReqs + 1
    /\ last' = NoResult
    /\ UNCHANGED <<clock, isOpen, store, hist, calls, nTicks, nRecords, served, callers, isOpenB, ident, blind, poll>>

\* const rateLimitCheck = await checkRateLimit(clientId); a denial is answered
\* 429 'rate_limit_exceeded'
HttpCheck_RecordFirst(r, faults) ==
    /\ req[r].pc = "check"
    /\ isOpen \/ faults = {}
    /\ faults \subseteq CheckIssued(store, isOpen, faults, req[r].client, clock)
    /\ LET rateLimitCheck == checkRateLimit(store, isOpen, faults, req[r].client, clock)
       IN  req' = [req EXCEPT ![r] =
                     IF rateLimitCheck.allowed
                     THEN [@ EXCEPT !.pc = "fetch", !.checked = "allowed",
                                    !.recorded = Undefined,
                                    !.pending = IF isOpen THEN clock ELSE Null]
                     ELSE [@ EXCEPT !.pc = "done", !.checked = "denied", !.status = 429,
                                    !.error = "rate_limit_exceeded",
                                    !.reason = rateLimitCheck.reason,
                                    !.message = rateLimitCheck.message,
                                    !.hasWait = rateLimitCheck.hasWait,
                                    !.waitTime = rateLimitCheck.waitTime]]
    /\ last' = NoResult
    /\ UNCHANGED <<clock, isOpen, store, hist, calls, nTicks, nRecords, served, nReqs, callers, isOpenB, ident, blind, poll>>

\* a handler that answers a denial and goes on to call VirusTotal
HttpCheck_FetchOnDenial(r, faults) ==
    /\ req[r].pc = "check"
    /\ isOpen \/ faults = {}
    /\ faults \subseteq CheckIssued(store, isOpen, faults, req[r].client, clock)
    /\ LET rateLimitCheck == checkRateLimit(store, isOpen, faults, req[r].client, clock)
           prior == IF isOpen /\ faults = {} /\ (\A q \in Reqs : req[q].pending = Null)
                    THEN PriorServed(req[r].client) ELSE 0
       IN  req' = [req EXCEPT ![r] =
                     IF rateLimitCheck.allowed
                     THEN [@ EXCEPT !.pc = "fetch", !.checked = "allowed", !.prior = prior]
                     ELSE [@ EXCEPT !.pc = "fetch", !.checked = "denied", !.status = 429,
                                    !.error = "rate_limit_exceeded",
                                    !.reason = rateLimitCheck.reason,
                                    !.message = rateLimitCheck.message,
                                    !.hasWait = rateLimitCheck.hasWait,
                                    !.waitTime = rateLimitCheck.waitTime, !.prior = prior]]
    /\ last' = NoResult
    /\ UNCHANGED <<clock, isOpen, store, hist, calls, nTicks, nRecords, served, nReqs, callers, isOpenB, ident, blind, poll>>

HttpCheck(r, faults) ==
    /\ req[r].pc = "check"
    /\ isOpen \/ faults = {}
    /\ faults \subseteq CheckIssued(store, isOpen, faults, req[r].client, clock)
    /\ LET rateLimitCheck == checkRateLimit(store, isOpen, faults, req[r].client, clock)
           prior == IF isOpen /\ faults = {} /\ (\A q \in Reqs : req[q].pending = Null)
                    THEN PriorServed(req[r].client) ELSE 0
       IN  req' = [req EXCEPT ![r] =
                     IF rateLimitCheck.allowed
                     THEN [@ EXCEPT !.pc = "fetch", !.checked = "allowed", !.prior = prior]
                     ELSE [@ EXCEPT !.pc = "done", !.checked = "denied", !.status = 429,
                                    !.error = "rate_limit_exceeded",
                                    !.reason = rateLimitCheck.reason,
                                    !.message = rateLimitCheck.message,
                                    !.hasWait = rateLimitCheck.hasWait,
                                    !.waitTime = rateLimitCheck.waitTime, !.prior = prior]]
    /\ last' = NoResult
    /\ UNCHANGED <<clock, isOpen, store, hist, calls, nTicks, nRecords, served, nReqs, callers, isOpenB, ident, blind, poll>>

\* the call to VirusTotal returns after dur milliseconds, one at least.  On success the
\* handler calls recordRequest() and, without waiting for it, answers 200;
\* otherwise it answers with the error and records nothing.
HttpFetch(r, outcome, dur) ==
    /\ req[r].pc = "fetch"
    /\ clock' = clock + dur
    /\ store' = Purge(store, clock + dur)
    /\ req' = [req EXCEPT ![r] =
                  CASE outcome = "ok" ->
                         [@ EXCEPT !.pc = "done", !.fetched = TRUE, !.status = 200,
                                   !.recorded = Undefined,
                                   !.pending = IF isOpen THEN clock + dur ELSE Null]
                    [] outcome = "429" ->
                         [@ EXCEPT !.pc = "done", !.fetched = TRUE, !.status = 429,
                                   !.error = "virustotal_rate_limit"]
                    [] outcome = "error" ->
                         [@ EXCEPT !.pc = "done", !.fetched = TRUE, !.status = 502,
                                   !.error = "virustotal_error"]
                    [] OTHER ->
                         [@ EXCEPT !.pc = "done", !.fetched = TRUE, !.status = 500,
                                   !.error = "server_error"]]
    /\ served' = IF outcome = "ok" /\ isOpen
                 THEN served (+) SetToBag({[client |-> req[r].client, at |-> clock + dur]})
                 ELSE served
    /\ last' = NoResult
    /\ UNCHANGED <<isOpen, hist, calls, nTicks, nRecords, nReqs, callers, isOpenB, ident, blind, poll>>

\* the commands of the recordRequest call of slot r reach the server, or are
\* lost with the connection
HttpRecordLands(r) ==
    /\ req[r].pending # Null
    /\ store' = IF isOpen
                THEN recordRequestLands(store, req[r].recorded, req[r].pending, clock)
                ELSE store
    /\ calls' = IF isOpen
                THEN calls (+) SetToBag({[id |-> req[r].recorded, ms |-> req[r].pending]})
                ELSE calls
    /\ req' = [req EXCEPT ![r].pending = Null]
    /\ last' = NoResult
    /\ UNCHANGED <<clock, isOpen, hist, nTicks, nRecords, served, nReqs, callers, isOpenB, ident, blind, poll>>

NextHttp ==
    \/ Connect
    \/ \E d \in TickSteps : Tick(d)
    \/ \E r \in Reqs, route \in Routes, c \in HttpClients, valid \in BOOLEAN :
           HttpReceive(r, route, c, valid)
    \/ \E r \in Reqs, f \in SUBSET CheckOps : HttpCheck(r, f)
    \/ \E r \in Reqs, o \in FetchOutcomes, dur \in FetchDurations : HttpFetch(r, o, dur)
    \/ \E r \in Reqs : HttpRecordLands(r)

SpecHttp == Init /\ [][NextHttp]_vars

(* ------------------------- vocabulary of the claims -------------------- *)
NowS == clock \div 1000
LastCheck == last.op = "check"
\* the last call was a check that found the store reachable and lost no command
CheckedAvailable == LastCheck /\ isOpen /\ last.failed = {}
Denied(reason) == ~last.res.allowed /\ last.res.reason = reason

\* the recordRequest calls, past and present, whose writes all succeeded
CallSet == BagToSet(calls) \cup (IF hist THEN HistSet ELSE {})
Mult(e) == IF e \in BagToSet(calls) THEN calls[e] ELSE 1

RECURSIVE SumMult(_)
SumMult(S) == IF S = {} THEN 0
              ELSE LET e == CHOOSE x \in S : TRUE IN Mult(e) + SumMult(S \ {e})

\* calls for identifier at second cutoff or later: all of them, and those
\* with different millisecond timestamps
CallsSince(identifier, cutoff) ==
    SumMult({e \in BagToSet(calls) : e.id = identifier /\ e.ms \div 1000 >= cutoff})
    + Cardinality({e \in (IF hist THEN HistSet ELSE {}) :
                       e.id = identifier /\ e.ms \div 1000 >= cutoff})
DistinctCallsSince(identifier, cutoff) ==
    Cardinality({e \in CallSet : e.id = identifier /\ e.ms \div 1000 >= cutoff})

\* the members of the minute set of the checked identifier that are in the window
InWindow == {m \in store[Key("minute", last.id)].members : m.score >= NowS - WINDOWS_MINUTE}
OldestInWindow == ZFirst(InWindow).score

(* -------------------------------- claims ------------------------------- *)
\* C1 as stated: after 4 record calls for an identity within the last 60
\* seconds, store available, a check of that identity is denied with 'rate_limit'.
C1_BurstAnyFour ==
    (CheckedAvailable /\ CallsSince(last.id, NowS - 60) >= 4) => Denied("rate_limit")

\* C1 amended: after 4 record calls for an identity within the last 60 seconds
\* that read 4 different millisecond timestamps, store available, a check of
\* that identity is denied with 'rate_limit'.
C1_BurstFourDistinct ==
    (CheckedAvailable /\ DistinctCallsSince(last.id, NowS - 60) >= 4) => Denied("rate_limit")

C1_Witness ==
    /\ CheckedAvailable
    /\ DistinctCallsSince(last.id, NowS - 60) = 4
    /\ Denied("rate_limit")

\* C2 as stated: with 500 events of an identity recorded within the last 86400
\* seconds, a check is denied with 'daily_limit' whatever the minute window holds.
C2_DailyWhateverMinute ==
    (CheckedAvailable /\ DistinctCallsSince(last.id, NowS - 86400) >= 500)
        => Denied("daily_limit")

\* C2 amended: with 500 events of an identity recorded within the last 86400
\* seconds, a check is denied: with 'daily_limit' when fewer than 4 of the
\* events fall inside the last 60 seconds, with 'rate_limit' otherwise.
C2_DailyUnlessMinute ==
    (CheckedAvailable /\ DistinctCallsSince(last.id, NowS - 86400) >= 500)
        => IF DistinctCallsSince(last.id, NowS - 60) >= 4
           THEN Denied("rate_limit") ELSE Denied("daily_limit")

C2_Witness ==
    /\ CheckedAvailable
    /\ DistinctCallsSince(last.id, NowS - 86400) >= 500
    /\ DistinctCallsSince(last.id, NowS - 60) \in 1 .. 3
    /\ Denied("daily_limit")

\* C3: an identity over both limits at once (4 or more events in the last 60
\* seconds, 500 or more in the last 86400) is reported 'rate_limit', never 'daily_limit'.
C3_MinuteBeforeDay ==
    (/\ CheckedAvailable
     /\ DistinctCallsSince(last.id, NowS - 60) >= 4
     /\ DistinctCallsSince(last.id, NowS - 86400) >= 500)
        => (Denied("rate_limit") /\ last.res.hasWait)

C3_Witness ==
    /\ CheckedAvailable
    /\ DistinctCallsSince(last.id, NowS - 60) >= 4
    /\ DistinctCallsSince(last.id, NowS - 86400) >= 500
    /\ Denied("rate_limit")

\* C4: with the store unreachable (client not connected, or every command of
\* the check failing) check returns allowed = true together with a warning.
C4_FailOpenWithWarning ==
    (LastCheck /\ (~isOpen \/ last.failed = CheckIssued(store, isOpen, last.failed, last.id, clock)))
        => (last.res.allowed /\ last.res.warning)

\* C5: when any store command fails during check, the oldest-event lookups
\* after a full minute count included, check returns allowed = true with the
\* warning and not a denial.
C5_FailOpenOnAnyFailure ==
    (LastCheck /\ isOpen /\ last.failed # {}) => (last.res.allowed /\ last.res.warning)

\* C6: a store operation on a disconnected or failing store reports a failure;
\* a count on an unavailable store is never reported as 0.
C6_CountFailureDistinguishable ==
    (LastCheck /\ (~isOpen \/ "zcountMinute" \in last.failed)) => last.kvMinute.threw

\* C7: a 'rate_limit' denial carries the wait time (score of the oldest event
\* with score >= now - 60) + 60 - now, and 60 only when no such event is known.
C7_WaitTimeFormula ==
    (CheckedAvailable /\ Denied("rate_limit"))
        => last.res.waitTime = (IF InWindow # {} THEN OldestInWindow + 60 - NowS ELSE 60)

\* C8: the oldest-since lookup returns the score of the earliest member with
\* score >= cutoff, never the score of a member below the cutoff.
C8_OldestSinceInWindow ==
    (CheckedAvailable /\ last.oldest # Null)
        => (last.oldest >= NowS - WINDOWS_MINUTE /\ last.oldest = OldestInWindow)

\* C9: after a 'rate_limit' denial with wait time w at time t, and no further
\* record for the identity, a check at time t + w is not denied by the minute window.
C9_RecoverableByWaiting ==
    (CheckedAvailable /\ Denied("rate_limit") /\ last.res.waitTime >= 0)
        => checkRateLimit(Purge(store, clock + last.res.waitTime * 1000), TRUE, {},
                          last.id, clock + last.res.waitTime * 1000).reason # "rate_limit"

\* C10: an event recorded at second T is counted for the minute window by a
\* check at T + 59 (and earlier) and not counted by a check at T + 61 (and later):
\* the count lies between the number of events at most 59 and at most 60 seconds old.
C10_WindowSliding ==
    CheckedAvailable
        => /\ DistinctCallsSince(last.id, NowS - 59) <= last.minuteCount
           /\ last.minuteCount <= DistinctCallsSince(last.id, NowS - 60)

C10_Witness ==
    /\ CheckedAvailable
    /\ \E e \in CallSet : e.id = last.id /\ NowS = e.ms \div 1000 + 59
    /\ last.minuteCount = DistinctCallsSince(last.id, NowS - 59)
    /\ last.minuteCount >= 1

\* C11: the count and the wait time of a check use one membership rule, score
\* >= now - 60: the event whose score enters the wait time is one of the
\* events that the minute count counted.
C11_WaitEventWasCounted ==
    (CheckedAvailable /\ Denied("rate_limit") /\ last.oldest # Null)
        => \E m \in InWindow : m.score = last.oldest

\* C12: a recordRequest call for one identifier leaves the keys of every other
\* identifier as the passing of time alone leaves them, and checkRateLimit and
\* getRateLimitStatus of the other identifier return what they would have
\* returned without the call.
C12_RecordLeavesOthers ==
    [][\A b \in TwoClients :
          (last'.op = "record" /\ last'.id # b) =>
              /\ \A w \in WindowNames :
                    store'[Key(w, b)] = Purge(store, clock')[Key(w, b)]
              /\ checkRateLimit(store', isOpen', {}, b, clock')
                    = checkRateLimit(Purge(store, clock'), isOpen, {}, b, clock')
              /\ getRateLimitStatus(store', isOpen', {}, b, clock')
                    = getRateLimitStatus(Purge(store, clock'), isOpen, {}, b, clock')]_vars

C12_Witness ==
    /\ last.op = "record" /\ last.id = "a" /\ isOpen
    /\ store[Key("minute", "a")].members # {}
    /\ store[Key("minute", "b")].members # {}
    /\ store[Key("minute", "a")] # store[Key("minute", "b")]

\* C13: a handler calls recordRequest with the identifier it passed to
\* checkRateLimit.
C13_RecordsCheckedIdentity ==
    \A r \in Reqs : req[r].recorded # "none" => req[r].recorded = req[r].client

\* C14: a client that had 4 requests answered with success within the last 60
\* seconds, each recorded with the store connected and none still on its way,
\* is answered 429 'rate_limit_exceeded' when its next request is checked.
C14_FifthRequestDenied ==
    \A r \in Reqs :
        req[r].prior >= LIMITS_PER_MINUTE
            => (req[r].checked = "denied" /\ req[r].status = 429
                /\ req[r].error = "rate_limit_exceeded")

\* C15: a handler has called recordRequest only if checkRateLimit allowed the
\* request and the call to VirusTotal was made; a request that was denied
\* has no recordRequest call.
C15_RecordAfterAllowedFetch ==
    \A r \in Reqs :
        /\ req[r].recorded # "none" => (req[r].checked = "allowed" /\ req[r].fetched)
        /\ req[r].checked = "denied" => (req[r].recorded = "none" /\ req[r].pending = Null)

\* a request is denied after earlier ones were answered 200 and recorded
C15_Witness ==
    /\ \E r \in Reqs : req[r].checked = "denied" /\ req[r].recorded = "none"
    /\ \E e \in BagToSet(served) : [id |-> Undefined, ms |-> e.at] \in BagToSet(calls)

\* C16: a checkRateLimit call, allowing or denying, leaves every key of the
\* store as it was, members and time to live; a key differs from what the
\* passing of time makes of it only after a recordRequest call, which adds at
\* most one member to it.
C16_CheckCreatesNoEvent ==
    [][/\ last'.op = "check" => store' = store
       /\ (\E k \in Keys : store'[k] # Purge(store, clock')[k]) => last'.op = "record"
       /\ \A k \in Keys :
             Cardinality(store'[k].members \ store[k].members) <= 1]_vars

C16_Witness ==
    /\ CheckedAvailable
    /\ last.res.allowed
    /\ Cardinality(store[Key("minute", last.id)].members) \in 1 .. 3
    /\ store[Key("minute", last.id)].expireAt # NoTTL

\* C17: a getRateLimitStatus call leaves the store as it was, so that
\* checkRateLimit and recordRequest after it find what they would have found
\* without it.
C17_StatusLeavesStore ==
    [][last'.op = "status" =>
          /\ store' = store
          /\ \A i \in Clients :
                /\ checkRateLimit(store', isOpen', {}, i, clock')
                      = checkRateLimit(store, isOpen, {}, i, clock)
                /\ recordRequest(store', isOpen', {}, i, clock')
                      = recordRequest(store, isOpen, {}, i, clock)]_vars

C17_Witness ==
    /\ last.op = "status" /\ isOpen /\ last.failed = {}
    /\ last.status.requestsLastMinute >= 1
    /\ store[Key("minute", last.id)].members # {}

\* C18: with the store available, getRateLimitStatus returns the numbers of
\* events of the last 60 and the last 86400 seconds, the limits 4 and 500, and
\* as remaining max(0, 4 - requestsLastMinute) and max(0, 500 - requestsToday),
\* which are never negative.
C18_StatusArithmetic ==
    (last.op = "status" /\ isOpen /\ last.failed = {}) =>
        /\ last.status.requestsLastMinute = DistinctCallsSince(last.id, NowS - 60)
        /\ last.status.requestsToday = DistinctCallsSince(last.id, NowS - 86400)
        /\ last.status.limits = [perMinute |-> 4, perDay |-> 500]
        /\ last.status.remaining.perMinute =
              (IF last.status.requestsLastMinute >= 4 THEN 0
               ELSE 4 - last.status.requestsLastMinute)
        /\ last.status.remaining.perDay =
              (IF last.status.requestsToday >= 500 THEN 0
               ELSE 500 - last.status.requestsToday)
        /\ last.status.remaining.perMinute >= 0
        /\ last.status.remaining.perDay >= 0

\* the count of the last minute is over its limit
C18_Witness ==
    /\ last.op = "status" /\ isOpen /\ last.failed = {}
    /\ last.status.requestsLastMinute = 5
    /\ last.status.remaining.perMinute = 0

\* C19: with the store unavailable (client not connected, or a count command
\* failing), getRateLimitStatus returns zero counts together with the error flag.
C19_StatusErrorFlag ==
    (last.op = "status" /\ (~isOpen \/ last.failed # {}))
        => (/\ last.status.requestsLastMinute = 0
            /\ last.status.requestsToday = 0
            /\ last.status.error)

\* C20: whichever of its four store commands reject (all, some or none), and
\* with the client connected or not, a recordRequest call does not reject to
\* its caller.
C20_RecordNeverRejects ==
    last.op = "record" => last.outcome \in {"resolved", "caught"}

\* every command of the call rejected; and, another time, only some did and
\* the others reached the store
C20_Witness ==
    /\ last.op = "record" /\ isOpen
    /\ last.outcome = "caught"
    /\ \/ last.failed = RecordOps
       \/ /\ last.failed = {"zaddDay", "expireDay"}
          /\ store[Key("minute", last.id)].members # {}
          /\ store[Key("day", last.id)].members = {}

\* C21: with the store available, a recordRequest call that reads Date.now() =
\* t adds the member t with score floor(t / 1000) to the minute set and to the
\* day set of its identifier, leaves their other members, and sets the time to
\* live of the minute key to 120 s and of the day key to 172800 s from t,
\* whatever it was before.
C21_RecordEffect ==
    [][(last'.op = "record" /\ isOpen /\ last'.failed = {}) =>
          LET e == [member |-> clock, score |-> clock \div 1000]
              minuteKey == Key("minute", last'.id)
              dayKey == Key("day", last'.id)
          IN  /\ store'[minuteKey].members = store[minuteKey].members \cup {e}
              /\ store'[dayKey].members = store[dayKey].members \cup {e}
              /\ store'[minuteKey].expireAt = clock + 120 * 1000
              /\ store'[dayKey].expireAt = clock + 172800 * 1000]_vars

\* a later call has replaced the time to live that an earlier one had set
C21_Witness ==
    /\ last.op = "record" /\ isOpen /\ last.failed = {}
    /\ \E m1, m2 \in store[Key("minute", last.id)].members :
          /\ m1.member + 59000 <= m2.member
          /\ store[Key("minute", last.id)].expireAt = m2.member + 120 * 1000
          /\ store[Key("day", last.id)].expireAt = m2.member + 172800 * 1000
          /\ {m1, m2} \subseteq store[Key("day", last.id)].members

\* the window of a key, seconds
WindowOf(k) == IF k[1] = "minute" THEN WINDOWS_MINUTE ELSE WINDOWS_DAY

\* C22: a member written at millisecond t is gone from the store once the
\* clock is past t + 2 x window (120 s for a minute key, 172800 s for a day
\* key), whatever calls follow the one that wrote it.
C22_BoundedRetention ==
    \A k \in Keys : \A m \in store[k].members :
        clock <= m.member + 2 * WindowOf(k) * 1000

\* C23: a key that holds members has a time to live, after any recordRequest
\* call, one of whose commands failed included: the keys of an identifier that
\* stops calling go away.
C23_EveryKeyExpires ==
    \A k \in Keys : store[k].members # {} => store[k].expireAt # NoTTL

\* the number of members of a sorted set
ZCard(st, key) == Cardinality(st[key].members)

\* the count checkRateLimit and getRateLimitStatus use for window w of identifier
UsedCount(w, identifier) ==
    countRequestsInWindow(store, isOpen, FALSE, Key(w, identifier), NowS,
                          IF w = "minute" THEN WINDOWS_MINUTE ELSE WINDOWS_DAY).val

\* C24 as stated: with the store available, the counts of check and status
\* for a window equal the number of recordRequest calls completed for the
\* identifier with second timestamp >= now - window.
C24_CountsEveryCall ==
    ((LastCheck \/ last.op = "status") /\ isOpen /\ last.failed = {}) =>
        /\ UsedCount("minute", last.id) = CallsSince(last.id, NowS - 60)
        /\ UsedCount("day", last.id) = CallsSince(last.id, NowS - 86400)
        /\ LastCheck => last.minuteCount = CallsSince(last.id, NowS - 60)
        /\ last.op = "status" =>
              /\ last.status.requestsLastMinute = CallsSince(last.id, NowS - 60)
              /\ last.status.requestsToday = CallsSince(last.id, NowS - 86400)

\* C24 amended: with the store available, the counts of check and status for
\* a window equal the number of different millisecond timestamps read by the
\* recordRequest calls completed for the identifier with second timestamp >=
\* now - window: calls within one millisecond count once.
C24_CountsEveryMillisecond ==
    ((LastCheck \/ last.op = "status") /\ isOpen /\ last.failed = {}) =>
        /\ UsedCount("minute", last.id) = DistinctCallsSince(last.id, NowS - 60)
        /\ UsedCount("day", last.id) = DistinctCallsSince(last.id, NowS - 86400)
        /\ LastCheck => last.minuteCount = DistinctCallsSince(last.id, NowS - 60)
        /\ last.op = "status" =>
              /\ last.status.requestsLastMinute = DistinctCallsSince(last.id, NowS - 60)
              /\ last.status.requestsToday = DistinctCallsSince(last.id, NowS - 86400)

\* some calls are inside the minute window and some are not
C24_Witness ==
    /\ CheckedAvailable
    /\ last.minuteCount = 2
    /\ DistinctCallsSince(last.id, NowS - 86400) = 4
    /\ UsedCount("day", last.id) = 4

\* C25: a member with score below now - window adds nothing to the counts of
\* check and status, while it is still in its set: each count is the size of
\* the set less the number of such members.
C25_AntiqueNotCounted ==
    ((LastCheck \/ last.op = "status") /\ isOpen /\ last.failed = {}) =>
        LET Antique(w) == {m \in store[Key(w, last.id)].members :
                              m.score < NowS - (IF w = "minute" THEN 60 ELSE 86400)}
        IN  /\ \A w \in WindowNames :
                  UsedCount(w, last.id) = ZCard(store, Key(w, last.id)) - Cardinality(Antique(w))
            /\ LastCheck =>
                  last.minuteCount = ZCard(store, Key("minute", last.id)) - Cardinality(Antique("minute"))
            /\ last.op = "status" =>
                  last.status.requestsLastMinute
                      = ZCard(store, Key("minute", last.id)) - Cardinality(Antique("minute"))

\* a member older than the window is in the set and the count leaves it out
C25_Witness ==
    /\ CheckedAvailable
    /\ \E m \in store[Key("minute", last.id)].members : m.score < NowS - 60
    /\ last.minuteCount \in 1 .. ZCard(store, Key("minute", last.id)) - 1

PeerAddress ==
    IF ident.ip.present THEN ident.ip
    ELSE IF ident.connection THEN ident.remoteAddress
    ELSE Absent

\* r is s without the spaces at its two ends
IsTrimOf(r, s) ==
    \E a \in 1 .. Len(s) + 1 : \E b \in a - 1 .. Len(s) :
        /\ r = SubSeq(s, a, b)
        /\ \A j \in (1 .. a - 1) \cup (b + 1 .. Len(s)) : s[j] = " "
        /\ r # <<>> => (r[1] # " " /\ r[Len(r)] # " ")

\* t is what comes before the first comma of s, all of s if it has none
IsFirstTokenOf(t, s) ==
    \E n \in 0 .. Len(s) :
        /\ t = SubSeq(s, 1, n)
        /\ \A j \in 1 .. n : s[j] # ","
        /\ n = Len(s) \/ s[n + 1] = ","

\* C28: getClientIdentifier returns the trimmed first comma-separated token of
\* x-forwarded-for when the header is present; otherwise x-real-ip when
\* present; otherwise the address of the transport peer; and 'unknown' when
\* none of them is available.
C28_ResolutionOrder ==
    ident.done =>
        /\ ~ident.threw
        /\ IF ident.forwarded.present
           THEN /\ ident.result.present
                /\ \E t \in Strings(Len(ident.forwarded.val)) :
                      /\ IsFirstTokenOf(t, ident.forwarded.val)
                      /\ IsTrimOf(ident.result.val, t)
           ELSE IF ident.realIp.present THEN ident.result = ident.realIp
           ELSE IF PeerAddress.present THEN ident.result = PeerAddress
           ELSE ident.result = Str(Unknown)

\* C29: whichever of its inputs are there, getClientIdentifier returns a
\* string and does not throw; with none of them it returns 'unknown'.
C29_IdentifyTotal ==
    ident.done =>
        /\ ~ident.threw
        /\ ident.result.present
        /\ (~ident.forwarded.present /\ ~ident.realIp.present /\ ~PeerAddress.present)
              => ident.result = Str(Unknown)

\* the recordRequest calls of identifier were each made 60 seconds or more
\* after the one before
Spaced(identifier) ==
    /\ \A e \in BagToSet(calls) : e.id = identifier => calls[e] = 1
    /\ \A e1, e2 \in BagToSet(calls) :
          (e1.id = identifier /\ e2.id = identifier /\ e1.ms < e2.ms)
              => e2.ms - e1.ms >= 60 * 1000

\* C30: a check that follows 4 recordRequest calls of its identifier, each 60
\* seconds or more after the one before, is not denied, whenever it is made.
C30_SpacedNeverDenied ==
    (/\ CheckedAvailable
     /\ ~hist
     /\ Spaced(last.id)
     /\ CallsSince(last.id, 0) = 4) => last.res.allowed

\* the four calls were exactly 60 seconds apart and the check follows at once
C30_Witness ==
    /\ CheckedAvailable
    /\ Spaced(last.id)
    /\ CallsSince(last.id, 0) = 4
    /\ \E e \in BagToSet(calls) : e.ms = clock
    /\ clock = T0 + 3 * 60 * 1000
    /\ last.minuteCount = 2
    /\ last.res.allowed

\* C31: a denial has reason 'rate_limit' or 'daily_limit'; a 'rate_limit'
\* denial has a number as wait time and a message that quotes it; a
\* 'daily_limit' denial has the daily message and no wait time; an allowed
\* decision has no reason.
C31_DecisionShape ==
    LastCheck =>
        /\ ~last.res.allowed => last.res.reason \in {"rate_limit", "daily_limit"}
        /\ Denied("rate_limit") =>
              /\ last.res.hasWait
              /\ last.res.waitTime \in Int
              /\ last.res.message = <<"Rate limit exceeded. Please wait ", last.res.waitTime,
                                       " seconds before trying again.">>
        /\ Denied("daily_limit") =>
              /\ ~last.res.hasWait
              /\ last.res.message
                    = <<"Daily limit of 500 requests reached. Please try again tomorrow.">>
        /\ last.res.allowed => (last.res.reason = "none" /\ last.res.message = <<>>)

\* a 'rate_limit' denial whose wait time is not the length of the window
C31_Witness ==
    /\ LastCheck /\ Denied("rate_limit")
    /\ last.res.hasWait /\ last.res.waitTime \in 1 .. 59
    /\ last.res.message = WaitMessage(last.res.waitTime)

\* C32: a record call never raises the count of a window by more than one,
\* and a record call that reads the millisecond of an earlier record call of
\* the same identity leaves one member for the two in each set: the sets are
\* as large as before, and when the identity's other calls read different
\* milliseconds the day set holds one member fewer than there were calls.
C32_DuplicateMillisecond ==
    [][(last'.op = "record" /\ isOpen) =>
         \A i \in {last'.id} \cap Ids, w \in WindowNames :
           LET twice == [id |-> i, ms |-> clock] \in BagToSet(calls) IN
               /\ UsedCount(w, i)' <= UsedCount(w, i) + 1
               /\ ZCard(store', Key(w, i)) <= ZCard(store, Key(w, i)) + 1
               /\ twice =>
                     /\ Cardinality({m \in store'[Key(w, i)].members : m.member = clock}) = 1
                     /\ ZCard(store', Key(w, i)) = ZCard(store, Key(w, i))
                     /\ (CallsSince(i, 0) = DistinctCallsSince(i, 0))
                           => ZCard(store', Key("day", i)) = CallsSince(i, 0)' - 1]_vars

\* two record calls of one identity read one millisecond and left one member
C32_Witness ==
    /\ last.op = "record" /\ isOpen
    /\ \E e \in BagToSet(calls) :
          /\ e.id = last.id /\ calls[e] = 2
          /\ Cardinality({m \in store[Key("minute", last.id)].members : m.member = e.ms}) = 1
    /\ ZCard(store, Key("day", last.id)) = CallsSince(last.id, 0) - 1

\* C33: a handler has sent its success response only after its recordRequest
\* call completed: no request is answered 200 while the commands of its
\* recordRequest call are still on their way, and the event the call wrote is
\* an event of the client that was answered.
C33_ResponseAfterRecord ==
    \A r \in Reqs :
        req[r].status = 200
            => /\ req[r].pending = Null
               /\ req[r].recorded \in {"none", req[r].client}

C35_WaitTimeRange ==
    (LastCheck /\ Denied("rate_limit")) => last.res.waitTime \in 0 .. WINDOWS_MINUTE

\* C36: while the writes of recordRequest succeed, the expiry of a key never
\* takes an event that is inside its window: every recorded event with
\* score >= now - window size is a member of its set.
C36_ExpiryKeepsWindow ==
    \A e \in CallSet, w \in WindowNames :
        e.ms \div 1000 >= NowS - WindowOf(Key(w, e.id))
            => [member |-> e.ms, score |-> e.ms \div 1000] \in store[Key(w, e.id)].members

\* the minute key of an identity has expired with its events, all of them
\* older than the window, and an event has been recorded since
C36_Witness ==
    /\ \E e \in BagToSet(calls) :
          /\ e.ms \div 1000 < NowS - WINDOWS_MINUTE
          /\ \A m \in store[Key("minute", e.id)].members : m.member # e.ms
          /\ [member |-> e.ms, score |-> e.ms \div 1000] \in store[Key("day", e.id)].members
    /\ \E e \in BagToSet(calls) :
          /\ e.ms \div 1000 >= NowS - WINDOWS_MINUTE
          /\ [member |-> e.ms, score |-> e.ms \div 1000] \in store[Key("minute", e.id)].members

\* C37: in every state with the store available, an identity has no more
\* events counted in its minute window than in its day window, and status
\* never reports requestsLastMinute above requestsToday.
C37_MinuteWithinDay ==
    isOpen =>
        /\ \A i \in Ids : UsedCount("minute", i) <= UsedCount("day", i)
        /\ (last.op = "status" /\ last.failed = {})
              => last.status.requestsLastMinute <= last.status.requestsToday

\* C38: on one state of the store at one time, store available, check denies
\* with 'rate_limit' exactly when status reports remaining.perMinute = 0, and
\* check allows exactly when status reports remaining.perMinute > 0 and
\* remaining.perDay > 0.
C38_CheckAgreesWithStatus ==
    CheckedAvailable =>
        LET status == getRateLimitStatus(store, isOpen, {}, last.id, clock)
        IN  /\ Denied("rate_limit") <=> status.remaining.perMinute = 0
            /\ last.res.allowed
                  <=> (status.remaining.perMinute > 0 /\ status.remaining.perDay > 0)

\* check denies with 'daily_limit' where status reports requests left in the
\* minute and none in the day
C38_Witness ==
    /\ CheckedAvailable /\ Denied("daily_limit")
    /\ LET status == getRateLimitStatus(store, isOpen, {}, last.id, clock)
       IN  /\ status.remaining.perMinute \in 1 .. 3
           /\ status.remaining.perDay = 0
           /\ ~status.error

\* C39: a handler calls VirusTotal only after checkRateLimit returned
\* allowed = true; when checkRateLimit denies, the handler answers 429 with
\* the message, the reason and the wait time of the decision, and calls
\* VirusTotal neither then nor later.
C39_NoFetchOnDenial ==
    [][\A r \in Reqs :
         /\ req[r].pc = "fetch" => req[r].checked = "allowed"
         /\ (req'[r].fetched /\ ~req[r].fetched) => req[r].pc = "fetch"
         /\ req[r].checked = "denied" => (req[r].pc = "done" /\ ~req[r].fetched)
         /\ (req[r].pc = "check" /\ req'[r].pc # "check") =>
               \E faults \in SUBSET CheckOps :
                  LET rateLimitCheck == checkRateLimit(store, isOpen, faults,
                                                       req[r].client, clock)
                  IN  IF rateLimitCheck.allowed
                      THEN req'[r].checked = "allowed" /\ req'[r].status = 0
                      ELSE /\ req'[r].checked = "denied"
                           /\ req'[r].pc = "done" /\ ~req'[r].fetched
                           /\ req'[r].status = 429
                           /\ req'[r].error = "rate_limit_exceeded"
                           /\ req'[r].message = rateLimitCheck.message
                           /\ req'[r].reason = rateLimitCheck.reason
                           /\ req'[r].hasWait = rateLimitCheck.hasWait
                           /\ req'[r].waitTime = rateLimitCheck.waitTime]_vars

\* a request was answered 429 with the wait time of a 'rate_limit' denial
\* and no call to VirusTotal, after requests that were allowed and fetched
C39_Witness ==
    /\ \E r \in Reqs :
          /\ req[r].checked = "denied" /\ req[r].status = 429 /\ ~req[r].fetched
          /\ req[r].reason = "rate_limit" /\ req[r].hasWait
          /\ req[r].message = WaitMessage(req[r].waitTime)
    /\ served # EmptyBag

\* C40 as stated: pollForResults sends at most maxAttempts requests; it
\* returns only an analysis whose status is 'completed'; it stops at the
\* first response that is not OK, with a rate-limit error when the status is
\* 429; otherwise it ends with the timeout error after the last attempt.
C40_PollEndings ==
    /\ poll.requests <= poll.maxAttempts
    /\ poll.pc = "returned" => poll.result = "completed"
    /\ poll.response.status \notin {0, 200} => poll.pc = "threw"
    /\ poll.response.status = 429 => poll.error = "rateLimitError"
    /\ (poll.pc = "threw" /\ poll.response.status \in {0, 200})
          => (poll.error = "Analysis timeout" /\ poll.requests = poll.maxAttempts)

\* C40 amended: the same, where a fetch that rejects, a body that is not
\* JSON and an OK body without data.attributes end the call with their own
\* error, and the rate-limit error is raised on a 429 whose body is JSON.
C40_PollEndingsOrFailure ==
    /\ poll.requests <= poll.maxAttempts
    /\ poll.pc = "returned"
          => (poll.result = "completed" /\ poll.response = PollResponse(200, "json", "completed"))
    /\ poll.response.status \notin {0, 200} => poll.pc = "threw"
    /\ (poll.response.status = 429 /\ poll.response.body # "notJson")
          => poll.error = "rateLimitError"
    /\ (poll.response.status = 500 /\ poll.response.body # "notJson")
          => poll.error = "Failed to get analysis results"
    /\ poll.pc = "threw" =>
          \/ poll.error \in {"rateLimitError", "Failed to get analysis results"}
          \/ poll.error = "fetch rejected" /\ poll.response = NoResponse /\ poll.requests > 0
          \/ poll.error = "SyntaxError" /\ poll.response.body = "notJson"
          \/ poll.error = "TypeError" /\ poll.response = PollResponse(200, "noData", "none")
          \/ /\ poll.error = "Analysis timeout"
             /\ poll.requests = poll.maxAttempts /\ poll.attempt = poll.maxAttempts
             /\ poll.requests > 0 => poll.response.analysis \in {"queued", "in-progress"}

\* the default 30 attempts were made, none found the analysis completed, and
\* the call ended with the timeout error
C40_Witness ==
    /\ poll.pc = "threw" /\ poll.error = "Analysis timeout"
    /\ poll.maxAttempts = DefaultMaxAttempts /\ poll.requests = DefaultMaxAttempts

====
